---- MODULE Spec2Model ----
(***************************************************************************)
(* Model of the Model Manager (src/src/models/model_manager.py): the       *)
(* registry of language models, the tiered fallback search and the         *)
(* per-model error accounting.                                             *)
(***************************************************************************)
EXTENDS Integers, Sequences, FiniteSets, TLC

VARIABLES
    models,   \* ModelManager.models: dict model_id -> ModelInfo (DOMAIN = registered ids)
    call,     \* the last call made on the manager and what it returned or raised
    marks     \* history: mark_model_error calls on a registered id since it was last
              \* registered or reset

vars == <<models, call, marks>>

----------------------------------------------------------------------------
(* ModelTier (src/src/models/model_tier.py): the enum members by value.    *)
BASIC == 1
STANDARD == 2
ADVANCED == 3
PREMIUM == 4

\* list(ModelTier): the members in definition order
ModelTier == <<BASIC, STANDARD, ADVANCED, PREMIUM>>

Tiers == {ModelTier[i] : i \in 1..Len(ModelTier)}

\* ModelInfo.max_errors default
DefaultMaxErrors == 3

----------------------------------------------------------------------------
(* Bounds of the model.                                                    *)

\* error_count is unbounded in the code; mark_model_error is explored up to
\* this count (above max_errors, so that errors on an unavailable model occur)
MaxErrorCount == 4

----------------------------------------------------------------------------
(* Identifiers and backend handles.                                        *)

\* ModelManager.fallback_chains, set in __init__ and never changed
fallback_chains ==
    [t \in Tiers |->
        CASE t = PREMIUM  -> <<"gpt-4", "claude-2", "gemini-ultra">>
          [] t = ADVANCED -> <<"gpt-3.5-turbo", "claude-instant-1", "command-nightly">>
          [] t = STANDARD -> <<"command-light-nightly", "gemini-pro">>
          [] t = BASIC    -> <<"command-nightly-v2.0">>]

ChainIds == UNION {{fallback_chains[t][i] : i \in 1..Len(fallback_chains[t])} : t \in Tiers}

\* every id the calls are made with: the ids of the chains, the id the Google
\* family registers outside every chain, and an id nobody registers
Ids == ChainIds \cup {"gemini-pro-vision", "nonexistent-model"}

\* the backend object a provider family constructs for an id
BackendOf(id) ==
    CASE id \in {"gpt-4", "gpt-3.5-turbo"} -> "ChatOpenAI:" \o id
      [] id \in {"claude-2", "claude-instant-1"} -> "ChatAnthropic:" \o id
      [] id \in {"command-nightly", "command-light-nightly", "command-nightly-v2.0"}
            -> "ChatCohere:" \o id
      [] OTHER -> "GenerativeModel:" \o id

\* a backend object handed to register_model by a caller after construction
CallerBackend == "caller-backend"

----------------------------------------------------------------------------
(* ModelInfo and register_model.                                           *)

ModelInfo(model, tier) ==
    [model |-> model, tier |-> tier, is_available |-> TRUE,
     error_count |-> 0, max_errors |-> DefaultMaxErrors]

\* register_model keeping the error state of a record it replaces
register_model_keeps_status(m, model_id, model, tier) ==
    [x \in (DOMAIN m) \cup {model_id} |->
        IF x # model_id THEN m[x]
        ELSE IF x \in DOMAIN m
        THEN [m[x] EXCEPT !.model = model, !.tier = tier]
        ELSE ModelInfo(model, tier)]

\* self.models[model_id] = ModelInfo(model=model, tier=tier)
register_model(m, model_id, model, tier) ==
    [x \in (DOMAIN m) \cup {model_id} |->
        IF x = model_id THEN ModelInfo(model, tier) ELSE m[x]]

----------------------------------------------------------------------------
(* Construction: _initialize_default_models and the four provider family   *)
(* routines.  An environment says which credentials os.getenv finds and    *)
(* which backend constructors raise.                                       *)

\* the exception a backend constructor (or genai.configure) raises when the
\* environment makes it fail
BackendError(point) == "backend error: " \o point

\* the statements of a try block in order: construct and register each
\* model; the first constructor that raises ends the block
RECURSIVE RegisterUntilError(_, _, _)
RegisterUntilError(m, entries, failing) ==
    IF entries = <<>> THEN m
    ELSE LET e == Head(entries) IN
         IF e[1] \in failing THEN m
         ELSE RegisterUntilError(register_model(m, e[1], BackendOf(e[1]), e[2]),
                                 Tail(entries), failing)

\* str(e) of the exception that ended the block, "" when it ran to its end
RECURSIVE FirstError(_, _)
FirstError(entries, failing) ==
    IF entries = <<>> THEN ""
    ELSE IF Head(entries)[1] \in failing THEN BackendError(Head(entries)[1])
    ELSE FirstError(Tail(entries), failing)

\* a try block's outcome: the registry it leaves and the exception it raised
TryBlock(m, entries, failing) ==
    [models |-> RegisterUntilError(m, entries, failing),
     error |-> FirstError(entries, failing)]

\* a family's except clause re-raising what it caught
family_except_reraises(r) == r

\* except Exception as e: logger.error(...)  -- the routine returns normally
family_except(r) == [models |-> r.models, error |-> ""]

openai_try(m, env) ==
    TryBlock(m, <<(<<"gpt-4", PREMIUM>>), (<<"gpt-3.5-turbo", ADVANCED>>)>>, env.failing)

anthropic_try(m, env) ==
    IF "ANTHROPIC_API_KEY" \notin env.keys THEN [models |-> m, error |-> ""]
    ELSE TryBlock(m, <<(<<"claude-2", PREMIUM>>), (<<"claude-instant-1", ADVANCED>>)>>,
                  env.failing)

cohere_try(m, env) ==
    IF "COHERE_API_KEY" \notin env.keys THEN [models |-> m, error |-> ""]
    ELSE TryBlock(m, <<(<<"command-nightly", ADVANCED>>),
                       (<<"command-light-nightly", STANDARD>>),
                       (<<"command-nightly-v2.0", BASIC>>)>>, env.failing)

\* raise ModelConfigError("GOOGLE_API_KEY not found in environment")
get_google_api_key(env) ==
    IF "GOOGLE_API_KEY" \notin env.keys
    THEN "GOOGLE_API_KEY not found in environment" ELSE ""

\* _get_google_api_key and genai.configure run inside the try block;
\* gemini-ultra has a try block of its own, whose except clause only warns
google_try(m, env) ==
    IF get_google_api_key(env) # "" THEN [models |-> m, error |-> get_google_api_key(env)]
    ELSE IF "genai.configure" \in env.failing
    THEN [models |-> m, error |-> BackendError("genai.configure")]
    ELSE LET r == TryBlock(m, <<(<<"gemini-pro", STANDARD>>),
                                (<<"gemini-pro-vision", ADVANCED>>)>>, env.failing)
         IN  IF r.error # "" THEN r
             ELSE [models |-> RegisterUntilError(r.models, <<(<<"gemini-ultra", PREMIUM>>)>>,
                                                 env.failing),
                   error |-> ""]

init_openai_models(m, env) == family_except(openai_try(m, env)).models

init_anthropic_models(m, env) == family_except(anthropic_try(m, env)).models

init_cohere_models(m, env) == family_except(cohere_try(m, env)).models

init_google_models(m, env) == family_except(google_try(m, env)).models

\* self.models = {} and then the families in the order OpenAI, Anthropic,
\* Cohere, Google
initialize_default_models(env) ==
    init_google_models(
        init_cohere_models(
            init_anthropic_models(
                init_openai_models(<<>>, env), env), env), env)

\* the environments the manager is constructed in
Environments ==
    { [keys |-> {"ANTHROPIC_API_KEY"}, failing |-> {"claude-instant-1"}],
      [keys |-> {"COHERE_API_KEY"}, failing |-> {"gpt-4"}],
      [keys |-> {"GOOGLE_API_KEY"}, failing |-> {"gpt-4"}],
      [keys |-> {}, failing |-> {"gpt-4"}] }

----------------------------------------------------------------------------
(* What a call returns or raises.                                          *)

Returned(model_id, model) ==
    [outcome |-> "return", model_id |-> model_id, model |-> model,
     error |-> "", message |-> ""]

Raised(error, message) ==
    [outcome |-> "raise", model_id |-> "", model |-> "",
     error |-> error, message |-> message]

ReturnedNone ==
    [outcome |-> "return", model_id |-> "", model |-> "", error |-> "", message |-> ""]

----------------------------------------------------------------------------
(* The fallback search.                                                    *)

\* the condition of the chain loops without its is_available conjunct
UsableWhenRegistered(m, model_id) == model_id \in DOMAIN m

\* the condition of the chain loops: model_id in self.models and
\* self.models[model_id].is_available
Usable(m, model_id) == model_id \in DOMAIN m /\ m[model_id].is_available

\* ScanChain giving up at the first id that is not registered
RECURSIVE ScanChainStopsAtUnregistered(_, _, _)
ScanChainStopsAtUnregistered(m, chain, i) ==
    IF i > Len(chain) THEN 0
    ELSE IF chain[i] \notin DOMAIN m THEN 0
    ELSE IF m[chain[i]].is_available THEN i
    ELSE ScanChainStopsAtUnregistered(m, chain, i + 1)

\* ScanChain with the loop keeping the last match instead of returning the first
RECURSIVE ScanChainKeepsLast(_, _, _)
ScanChainKeepsLast(m, chain, i) ==
    IF i > Len(chain) THEN 0
    ELSE LET later == ScanChainKeepsLast(m, chain, i + 1)
         IN  IF later # 0 THEN later
             ELSE IF Usable(m, chain[i]) THEN i ELSE 0

\* for model_id in chain: the index of the first usable id at or after i, 0 if none
RECURSIVE ScanChain(_, _, _)

ScanChain(m, chain, i) ==
    IF i > Len(chain) THEN 0
    ELSE IF Usable(m, chain[i]) THEN i
    ELSE ScanChain(m, chain, i + 1)

\* for tier in reversed(list(ModelTier)): for model_id in chain: ...
RECURSIVE BestFrom(_, _)
BestFrom(m, k) ==
    IF k = 0 THEN Raised("ModelNotFoundError", "No models available")
    ELSE LET chain == fallback_chains[ModelTier[k]]
             i == ScanChain(m, chain, 1)
         IN  IF i # 0 THEN Returned(chain[i], m[chain[i]].model)
             ELSE BestFrom(m, k - 1)

\* get_best_available_model taking any available record when the chains
\* have none
get_best_available_model_any_record(m) ==
    IF BestFrom(m, Len(ModelTier)).outcome = "return" THEN BestFrom(m, Len(ModelTier))
    ELSE IF \E x \in DOMAIN m : m[x].is_available
    THEN LET x == CHOOSE y \in DOMAIN m : m[y].is_available
         IN  Returned(x, m[x].model)
    ELSE Raised("ModelNotFoundError", "No models available")

\* get_best_available_model iterating list(ModelTier) without reversed()
get_best_available_model_ascending(m) ==
    LET has == {k \in 1..Len(ModelTier) : ScanChain(m, fallback_chains[ModelTier[k]], 1) # 0}
    IN  IF has = {} THEN Raised("ModelNotFoundError", "No models available")
        ELSE LET k == CHOOSE j \in has : \A l \in has : j <= l
                 chain == fallback_chains[ModelTier[k]]
                 i == ScanChain(m, chain, 1)
             IN  Returned(chain[i], m[chain[i]].model)

get_best_available_model(m) == BestFrom(m, Len(ModelTier))

\* the step of the walk going down two tiers where it can
lower_tier_skips(current_tier) ==
    IF current_tier - 2 >= BASIC THEN current_tier - 2 ELSE current_tier - 1

\* ModelTier(current_tier.value - 1)
lower_tier(current_tier) == current_tier - 1

\* LowerTiers trying the lowest tier first instead of the next lower one
LowerTiersLowestFirst(m, current_tier) ==
    LET has == {t \in Tiers : t < current_tier /\ ScanChain(m, fallback_chains[t], 1) # 0}
    IN  IF has = {} THEN Raised("ModelNotFoundError", "No fallback models available")
        ELSE LET t == CHOOSE u \in has : \A v \in has : u <= v
                 chain == fallback_chains[t]
                 i == ScanChain(m, chain, 1)
             IN  Returned(chain[i], m[chain[i]].model)

\* LowerTiers ending in the best available model of any tier instead of raising
RECURSIVE LowerTiersThenBest(_, _)
LowerTiersThenBest(m, current_tier) ==
    IF current_tier = BASIC
    THEN get_best_available_model(m)
    ELSE LET next == current_tier - 1
             chain == fallback_chains[next]
             i == ScanChain(m, chain, 1)
         IN  IF i # 0 THEN Returned(chain[i], m[chain[i]].model)
             ELSE LowerTiersThenBest(m, next)

\* while current_tier != ModelTier.BASIC: current_tier = ModelTier(value - 1); ...
RECURSIVE LowerTiers(_, _)
LowerTiers(m, current_tier) ==
    IF current_tier = BASIC
    THEN Raised("ModelNotFoundError", "No fallback models available")
    ELSE LET next == lower_tier(current_tier)
             chain == fallback_chains[next]
             i == ScanChain(m, chain, 1)
         IN  IF i # 0 THEN Returned(chain[i], m[chain[i]].model)
             ELSE LowerTiers(m, next)

\* get_fallback_model going to the lower tiers without trying the model's own tier
get_fallback_model_skips_own_tier(m, original_model_id) ==
    IF original_model_id \notin DOMAIN m THEN get_best_available_model(m)
    ELSE LowerTiers(m, m[original_model_id].tier)

get_fallback_model(m, original_model_id) ==
    IF original_model_id \notin DOMAIN m THEN get_best_available_model(m)
    ELSE LET original_tier == m[original_model_id].tier
             chain == fallback_chains[original_tier]
             i == ScanChain(m, chain, 1)
         IN  IF i # 0 THEN Returned(chain[i], m[chain[i]].model)
             ELSE LowerTiers(m, original_tier)

\* get_model resolving every fallback-enabled request through the fallback search
get_model_always_searches(m, model_id, use_fallback) ==
    IF use_fallback THEN get_fallback_model(m, model_id)
    ELSE IF model_id \in DOMAIN m /\ m[model_id].is_available
         THEN Returned(model_id, m[model_id].model)
         ELSE Raised("ModelNotFoundError", "Model " \o model_id \o " not found")

\* get_model ignoring use_fallback
get_model_ignores_flag(m, model_id, use_fallback) ==
    IF model_id \in DOMAIN m /\ m[model_id].is_available
    THEN Returned(model_id, m[model_id].model)
    ELSE get_fallback_model(m, model_id)

get_model(m, model_id, use_fallback) ==
    IF model_id \notin DOMAIN m
    THEN IF ~use_fallback
         THEN Raised("ModelNotFoundError", "Model " \o model_id \o " not found")
         ELSE get_fallback_model(m, model_id)
    ELSE IF ~m[model_id].is_available
    THEN IF ~use_fallback
         THEN Raised("ModelNotFoundError",
                     "Model " \o model_id \o " is currently unavailable")
         ELSE get_fallback_model(m, model_id)
    ELSE Returned(model_id, m[model_id].model)

----------------------------------------------------------------------------
(* Error accounting.                                                       *)

\* mark_model_error dropping the record once it has max_errors errors
mark_model_error_removes_record(m, model_id) ==
    IF model_id \notin DOMAIN m THEN m
    ELSE IF m[model_id].error_count + 1 >= m[model_id].max_errors
    THEN [x \in (DOMAIN m) \ {model_id} |-> m[x]]
    ELSE [m EXCEPT ![model_id] = [@ EXCEPT !.error_count = @ + 1]]

\* mark_model_error counting the error against every model of the tier
mark_model_error_marks_tier(m, model_id) ==
    IF model_id \notin DOMAIN m THEN m
    ELSE [x \in DOMAIN m |->
             IF m[x].tier # m[model_id].tier THEN m[x]
             ELSE [m[x] EXCEPT !.error_count = @ + 1,
                               !.is_available = IF m[x].error_count + 1 >= m[x].max_errors
                                                THEN FALSE ELSE @]]

\* mark_model_error no longer counting once the model is unavailable
mark_model_error_saturates(m, model_id) ==
    IF model_id \notin DOMAIN m THEN m
    ELSE IF ~m[model_id].is_available THEN m
    ELSE [m EXCEPT ![model_id] =
             [@ EXCEPT !.error_count = @ + 1,
                       !.is_available = IF m[model_id].error_count + 1
                                               >= m[model_id].max_errors
                                        THEN FALSE ELSE @]]

\* mark_model_error comparing with > instead of >=
mark_model_error_off_by_one(m, model_id) ==
    IF model_id \notin DOMAIN m THEN m
    ELSE LET info == m[model_id]
             n == info.error_count + 1
         IN  [m EXCEPT ![model_id] =
                 [info EXCEPT !.error_count = n,
                              !.is_available =
                                  IF n > info.max_errors THEN FALSE ELSE @]]

\* mark_model_error starting a record for an id it does not know
mark_model_error_creates_record(m, model_id) ==
    [x \in (DOMAIN m) \cup {model_id} |->
        IF x # model_id THEN m[x]
        ELSE IF x \in DOMAIN m
        THEN [m[x] EXCEPT !.error_count = @ + 1,
                          !.is_available = IF m[x].error_count + 1 >= m[x].max_errors
                                           THEN FALSE ELSE @]
        ELSE [model |-> "", tier |-> BASIC, is_available |-> TRUE,
              error_count |-> 1, max_errors |-> DefaultMaxErrors]]

\* mark_model_error making the model unavailable on its first error
mark_model_error_first_error(m, model_id) ==
    IF model_id \notin DOMAIN m THEN m
    ELSE [m EXCEPT ![model_id] =
             [@ EXCEPT !.error_count = @ + 1, !.is_available = FALSE]]

\* error_count += 1; is_available = False once error_count >= max_errors
mark_model_error(m, model_id) ==
    IF model_id \notin DOMAIN m THEN m
    ELSE LET info == m[model_id]
             n == info.error_count + 1
         IN  [m EXCEPT ![model_id] =
                 [info EXCEPT !.error_count = n,
                              !.is_available =
                                  IF n >= info.max_errors THEN FALSE ELSE @]]

\* reset_model_status clearing every record instead of the one asked for
reset_model_status_resets_all(m, model_id) ==
    IF model_id \notin DOMAIN m THEN m
    ELSE [x \in DOMAIN m |-> [m[x] EXCEPT !.error_count = 0, !.is_available = TRUE]]

\* reset_model_status restoring availability without clearing error_count
reset_model_status_keeps_count(m, model_id) ==
    IF model_id \notin DOMAIN m THEN m
    ELSE [m EXCEPT ![model_id] = [@ EXCEPT !.is_available = TRUE]]

reset_model_status(m, model_id) ==
    IF model_id \notin DOMAIN m THEN m
    ELSE [m EXCEPT ![model_id] = [@ EXCEPT !.error_count = 0, !.is_available = TRUE]]

\* get_model_tier answering with the tier of the chain that lists the id
get_model_tier_from_chain(m, model_id) ==
    IF model_id \notin DOMAIN m THEN 0
    ELSE LET listing == {t \in Tiers :
                            \E i \in 1..Len(fallback_chains[t]) :
                                fallback_chains[t][i] = model_id}
         IN  IF listing = {} THEN 0 ELSE CHOOSE t \in listing : TRUE

get_model_tier(m, model_id) ==
    IF model_id \in DOMAIN m THEN m[model_id].tier ELSE 0

\* list_available_models filtering with info.tier >= tier instead of ==
list_available_models_at_least(m, tier) ==
    IF tier = 0 THEN {x \in DOMAIN m : m[x].is_available}
    ELSE {x \in DOMAIN m : m[x].is_available /\ m[x].tier >= tier}

\* the ids of the returned list (tier 0 stands for tier=None)
list_available_models(m, tier) ==
    IF tier = 0 THEN {x \in DOMAIN m : m[x].is_available}
    ELSE {x \in DOMAIN m : m[x].is_available /\ m[x].tier = tier}

----------------------------------------------------------------------------
(* The state machine: a constructed manager and the calls made on it.      *)

Call(op, model_id, use_fallback, result) ==
    [op |-> op, model_id |-> model_id, use_fallback |-> use_fallback, result |-> result]

Init ==
    /\ \E env \in Environments : models = initialize_default_models(env)
    /\ call = Call("__init__", "", FALSE, ReturnedNone)
    /\ marks = [x \in Ids |-> 0]

\* the registrations callers make after construction
RegisterInputs ==
    { <<"command-nightly-v2.0", CallerBackend, PREMIUM>> }

RegisterModel(model_id, model, tier) ==
    /\ models' = register_model(models, model_id, model, tier)
    /\ call' = Call("register_model", model_id, FALSE, ReturnedNone)
    /\ marks' = [marks EXCEPT ![model_id] = 0]

\* get_model counting an error against the requested model when it answers
\* with another one
GetModelCountsSubstitution(model_id, use_fallback) ==
    LET r == get_model(models, model_id, use_fallback)
        substituted == /\ r.outcome = "return" /\ r.model_id # model_id
                       /\ model_id \in DOMAIN models
                       /\ models[model_id].error_count < MaxErrorCount
    IN  /\ call' = Call("get_model", model_id, use_fallback, r)
        /\ models' = IF substituted THEN mark_model_error(models, model_id) ELSE models
        /\ UNCHANGED marks

GetModel(model_id, use_fallback) ==
    /\ call' = Call("get_model", model_id, use_fallback,
                    get_model(models, model_id, use_fallback))
    /\ UNCHANGED <<models, marks>>

GetBestAvailableModel ==
    /\ call' = Call("_get_best_available_model", "", FALSE,
                    get_best_available_model(models))
    /\ UNCHANGED <<models, marks>>

MarkModelError(model_id) ==
    /\ model_id \in DOMAIN models => models[model_id].error_count < MaxErrorCount
    /\ models' = mark_model_error(models, model_id)
    /\ call' = Call("mark_model_error", model_id, FALSE, ReturnedNone)
    /\ marks' = IF model_id \in DOMAIN models
                THEN [marks EXCEPT ![model_id] = @ + 1] ELSE marks

ResetModelStatus(model_id) ==
    /\ models' = reset_model_status(models, model_id)
    /\ call' = Call("reset_model_status", model_id, FALSE, ReturnedNone)
    /\ marks' = [marks EXCEPT ![model_id] = 0]

Next ==
    \/ \E r \in RegisterInputs : RegisterModel(r[1], r[2], r[3])
    \/ \E model_id \in Ids, use_fallback \in BOOLEAN : GetModel(model_id, use_fallback)
    \/ GetBestAvailableModel
    \/ \E model_id \in Ids : MarkModelError(model_id)
    \/ \E model_id \in Ids : ResetModelStatus(model_id)

Spec == Init /\ [][Next]_vars

----------------------------------------------------------------------------
(* The lookups get_model_tier and list_available_models, and the manager   *)
(* with every public call.                                                 *)

\* what get_model_tier returns: a tier, or 0 for None
ReturnedTier(tier) == [outcome |-> "return", tier |-> tier]

\* what list_available_models returns: the ids of the list
ReturnedIds(ids) == [outcome |-> "return", ids |-> ids]

\* the tier arguments of list_available_models: 0 for tier=None
TierArguments == Tiers \cup {0}

GetModelTier(model_id) ==
    /\ call' = Call("get_model_tier", model_id, FALSE,
                    ReturnedTier(get_model_tier(models, model_id)))
    /\ UNCHANGED <<models, marks>>

ListAvailableModels(tier) ==
    /\ call' = [op |-> "list_available_models", model_id |-> "", use_fallback |-> FALSE,
                tier |-> tier, result |-> ReturnedIds(list_available_models(models, tier))]
    /\ UNCHANGED <<models, marks>>

NextAll ==
    \/ Next
    \/ \E model_id \in Ids : GetModelTier(model_id)
    \/ \E tier \in TierArguments : ListAvailableModels(tier)

SpecAll == Init /\ [][NextAll]_vars

----------------------------------------------------------------------------
(* Construction step by step: __init__ and _initialize_default_models.     *)
(* call.op is the last routine that ran, call.caught the families whose    *)
(* except clause caught an exception, call.raised the exception that is    *)
(* propagating out of a family routine ("" when none is).                  *)

\* the credentials os.getenv may find
ApiKeys == {"ANTHROPIC_API_KEY", "COHERE_API_KEY", "GOOGLE_API_KEY"}

\* the calls of the family routines that may raise
FailurePoints == ChainIds \cup {"gemini-pro-vision", "genai.configure"}

ConstructEnvironments == [keys : SUBSET ApiKeys, failing : SUBSET FailurePoints]

\* the constructor has not returned yet
Running == [outcome |-> "running"]

ConstructInit ==
    /\ models = <<>>
    /\ \E env \in ConstructEnvironments :
          call = [op |-> "__init__", env |-> env, caught |-> {}, raised |-> "",
                  result |-> Running]
    /\ marks = [x \in Ids |-> 0]

\* one family routine called from _initialize_default_models: its try block r
FamilyStep(family, after, op, r) ==
    /\ call.op = after
    /\ call.raised = ""
    /\ models' = family_except(r).models
    /\ call' = [call EXCEPT !.op = op,
                            !.raised = family_except(r).error,
                            !.caught = IF r.error # "" /\ family_except(r).error = ""
                                       THEN @ \cup {family} ELSE @]
    /\ UNCHANGED marks

InitOpenAIModels ==
    FamilyStep("openai", "__init__", "_init_openai_models", openai_try(models, call.env))

InitAnthropicModels ==
    FamilyStep("anthropic", "_init_openai_models", "_init_anthropic_models",
               anthropic_try(models, call.env))

InitCohereModels ==
    FamilyStep("cohere", "_init_anthropic_models", "_init_cohere_models",
               cohere_try(models, call.env))

InitGoogleModels ==
    FamilyStep("google", "_init_cohere_models", "_init_google_models",
               google_try(models, call.env))

\* the end of _initialize_default_models: an exception that left a family
\* routine is wrapped in ModelConfigError, otherwise the constructor returns
Constructed ==
    /\ call.op \in {"_init_openai_models", "_init_anthropic_models",
                    "_init_cohere_models", "_init_google_models"}
    /\ call.raised = "" => call.op = "_init_google_models"
    /\ call' = [call EXCEPT
                   !.op = "ModelManager",
                   !.result = IF call.raised # ""
                              THEN Raised("ModelConfigError",
                                          "Error initializing default models: "
                                              \o call.raised)
                              ELSE ReturnedNone]
    /\ UNCHANGED <<models, marks>>

NextConstruct ==
    \/ InitOpenAIModels
    \/ InitAnthropicModels
    \/ InitCohereModels
    \/ InitGoogleModels
    \/ Constructed

SpecConstruct == ConstructInit /\ [][NextConstruct]_vars

----------------------------------------------------------------------------
(* The agent's request flow: MultiModelAgent.process_message on the        *)
(* manager the agent constructs.  call.op is the statement that ran last,  *)
(* call.pending the ids the loop has still to process, call.evaluations    *)
(* the ids with an evaluation, call.failed the number of failed backend    *)
(* invocations per resolved id.                                            *)

\* requests are started while no id has this many failed invocations
MaxInvocations == 3

\* the models argument of process_message (<<>> for None or an empty list)
AgentRequests ==
    { <<>>, <<"gpt-4">>, <<"gpt-3.5-turbo", "claude-2">>, <<"gemini-pro">>,
      <<"nonexistent-model", "command-nightly">> }

AgentInit ==
    /\ \E env \in Environments : models = initialize_default_models(env)
    /\ call = [op |-> "__init__", model_id |-> "", pending |-> <<>>, evaluations |-> {},
               result |-> ReturnedNone, failed |-> [x \in Ids |-> 0]]
    /\ marks = [x \in Ids |-> 0]

\* what handle_error does to the registry: it builds a message and returns
handle_error(m, model_id) == m

\* model.agenerate([message]) on the value get_model returned: the value is
\* the pair (model_id, backend), which has no agenerate, and the except
\* clause of _get_model_response wraps the AttributeError
get_model_response(model) ==
    Raised("Exception",
           "Error getting response from model: 'tuple' object has no attribute 'agenerate'")

\* if not models: models = self.model_manager.get_default_models()
\* (ModelManager has no such method); otherwise the loop starts
ProcessMessage(ids) ==
    /\ call.op \in {"__init__", "process_message"}
    /\ \A x \in Ids : call.failed[x] < MaxInvocations
    /\ call' = IF ids = <<>>
               THEN [call EXCEPT
                        !.op = "process_message", !.model_id = "", !.pending = <<>>,
                        !.evaluations = {},
                        !.result = Raised("AttributeError",
                            "'ModelManager' object has no attribute 'get_default_models'")]
               ELSE [call EXCEPT
                        !.op = "for model_id in models", !.model_id = "",
                        !.pending = ids, !.evaluations = {}, !.result = ReturnedNone]
    /\ UNCHANGED <<models, marks>>

\* model = self.model_manager.get_model(model_id)
AgentGetModel ==
    /\ call.op \in {"for model_id in models", "handle_error", "evaluate_response"}
    /\ call.pending # <<>>
    /\ call' = [call EXCEPT
                   !.op = "get_model", !.model_id = Head(call.pending),
                   !.pending = Tail(call.pending),
                   !.result = get_model(models, Head(call.pending), TRUE)]
    /\ UNCHANGED <<models, marks>>

\* response = await self._get_model_response(model, message)
AgentGetModelResponse ==
    /\ call.op = "get_model"
    /\ call.result.outcome = "return"
    /\ LET r == get_model_response(call.result)
       IN  call' = [call EXCEPT
                       !.op = "_get_model_response",
                       !.result = IF r.outcome = "raise" THEN r ELSE @,
                       !.failed = IF r.outcome = "raise"
                                  THEN [@ EXCEPT ![call.result.model_id] = @ + 1]
                                  ELSE @]
    /\ UNCHANGED <<models, marks>>

\* except Exception as e: await self.handle_error(e)
AgentHandleError ==
    /\ call.op \in {"get_model", "_get_model_response"}
    /\ call.result.outcome = "raise"
    /\ models' = handle_error(models, call.model_id)
    /\ call' = [call EXCEPT !.op = "handle_error"]
    /\ UNCHANGED marks

\* best_response = await self.evaluator.select_best_response(evaluations):
\* max() of no scores raises ValueError, which leaves process_message
AgentSelectBest ==
    /\ call.op \in {"handle_error", "evaluate_response"}
    /\ call.pending = <<>>
    /\ call' = [call EXCEPT
                   !.op = "process_message",
                   !.result = IF call.evaluations = {}
                              THEN Raised("ValueError", "max() arg is an empty sequence")
                              ELSE ReturnedNone]
    /\ UNCHANGED <<models, marks>>

NextAgent ==
    \/ \E ids \in AgentRequests : ProcessMessage(ids)
    \/ AgentGetModel
    \/ AgentGetModelResponse
    \/ AgentHandleError
    \/ AgentSelectBest

SpecAgent == AgentInit /\ [][NextAgent]_vars

----------------------------------------------------------------------------
(* Concurrent callers of mark_model_error.  The method takes no lock, so   *)
(* the statements of concurrent calls interleave: call.pc is each caller's *)
(* position in the method and call.local the error_count it read for       *)
(* `error_count += 1`.  marks counts the calls that entered the if block.  *)

\* the number of concurrent callers
NumCallers == 3

Callers == 1..NumCallers

ConcurrentInit ==
    /\ \E env \in Environments : models = initialize_default_models(env)
    /\ \E model_id \in Ids :
          call = [op |-> "mark_model_error", model_id |-> model_id,
                  pc |-> [t \in Callers |-> "call"], local |-> [t \in Callers |-> 0]]
    /\ marks = [x \in Ids |-> 0]

\* if model_id in self.models: model_info = self.models[model_id], and the
\* read of model_info.error_count for the += statement
MarkRead(t) ==
    /\ call.pc[t] = "call"
    /\ IF call.model_id \in DOMAIN models
       THEN /\ call' = [call EXCEPT !.pc[t] = "read",
                                    !.local[t] = models[call.model_id].error_count]
            /\ marks' = [marks EXCEPT ![call.model_id] = @ + 1]
       ELSE /\ call' = [call EXCEPT !.pc[t] = "return"]
            /\ UNCHANGED marks
    /\ UNCHANGED models

\* the store of model_info.error_count += 1
MarkWrite(t) ==
    /\ call.pc[t] = "read"
    /\ models' = [models EXCEPT ![call.model_id].error_count = call.local[t] + 1]
    /\ call' = [call EXCEPT !.pc[t] = "written"]
    /\ UNCHANGED marks

\* if model_info.error_count >= model_info.max_errors: is_available = False
MarkCheck(t) ==
    /\ call.pc[t] = "written"
    /\ models' = [models EXCEPT ![call.model_id].is_available =
                     IF models[call.model_id].error_count
                            >= models[call.model_id].max_errors
                     THEN FALSE ELSE @]
    /\ call' = [call EXCEPT !.pc[t] = "return"]
    /\ UNCHANGED marks

NextConcurrent ==
    \E t \in Callers : MarkRead(t) \/ MarkWrite(t) \/ MarkCheck(t)

SpecConcurrent == ConcurrentInit /\ [][NextConcurrent]_vars

----------------------------------------------------------------------------
(* The downward walk of _get_fallback_model, one loop iteration per step.  *)
(* call.current_tier is the loop variable and call.visited the tiers the   *)
(* loop has scanned so far.                                                *)

WalkIdle == {"__init__", "mark_model_error", "get_model"}

WhileLoop == "while current_tier != ModelTier.BASIC"

WalkInit ==
    /\ \E env \in Environments : models = initialize_default_models(env)
    /\ call = [op |-> "__init__", model_id |-> "", current_tier |-> BASIC,
               visited |-> <<>>, result |-> ReturnedNone]
    /\ marks = [x \in Ids |-> 0]

WalkMarkModelError(model_id) ==
    /\ call.op \in WalkIdle
    /\ model_id \in DOMAIN models
    /\ models[model_id].error_count < MaxErrorCount
    /\ models' = mark_model_error(models, model_id)
    /\ call' = [call EXCEPT !.op = "mark_model_error", !.model_id = model_id,
                            !.visited = <<>>, !.result = ReturnedNone]
    /\ marks' = [marks EXCEPT ![model_id] = @ + 1]

\* get_model(model_id) up to the while loop: the request is answered before
\* the loop unless the id is registered, unavailable and its own tier's
\* chain has no usable model
WalkGetModel(model_id) ==
    /\ call.op \in WalkIdle
    /\ LET enters == /\ model_id \in DOMAIN models
                     /\ ~models[model_id].is_available
                     /\ ScanChain(models, fallback_chains[models[model_id].tier], 1) = 0
       IN  call' = IF enters
                   THEN [op |-> WhileLoop, model_id |-> model_id,
                         current_tier |-> models[model_id].tier,
                         visited |-> <<>>, result |-> Running]
                   ELSE [op |-> "get_model", model_id |-> model_id,
                         current_tier |-> BASIC, visited |-> <<>>,
                         result |-> get_model(models, model_id, TRUE)]
    /\ UNCHANGED <<models, marks>>

\* one iteration: step down one tier and scan its chain
WalkStep ==
    /\ call.op = WhileLoop
    /\ call.current_tier # BASIC
    /\ LET next == lower_tier(call.current_tier)
           chain == fallback_chains[next]
           i == ScanChain(models, chain, 1)
       IN  call' = [call EXCEPT
                       !.current_tier = next,
                       !.visited = Append(@, next),
                       !.op = IF i # 0 THEN "get_model" ELSE @,
                       !.result = IF i # 0 THEN Returned(chain[i], models[chain[i]].model)
                                  ELSE @]
    /\ UNCHANGED <<models, marks>>

\* the loop condition fails: raise ModelNotFoundError
WalkEnd ==
    /\ call.op = WhileLoop
    /\ call.current_tier = BASIC
    /\ call' = [call EXCEPT
                   !.op = "get_model",
                   !.result = Raised("ModelNotFoundError", "No fallback models available")]
    /\ UNCHANGED <<models, marks>>

NextWalk ==
    \/ \E model_id \in Ids : WalkMarkModelError(model_id)
    \/ \E model_id \in Ids : WalkGetModel(model_id)
    \/ WalkStep
    \/ WalkEnd

SpecWalk == WalkInit /\ [][NextWalk]_vars

\* the loop is not abandoned: an iteration that can run does run
SpecWalkFair == SpecWalk /\ WF_vars(WalkStep) /\ WF_vars(WalkEnd)

----------------------------------------------------------------------------
(* Properties.  They speak of the last call (call) and of the registry it  *)
(* was made on: get_model and _get_best_available_model leave the registry *)
(* as it was, so models is the registry of the call.                       *)

Registered(x) == x \in DOMAIN models
Available(x) == Registered(x) /\ models[x].is_available
Unavailable(x) == Registered(x) /\ ~models[x].is_available

\* the positions of a tier's chain that hold a registered, available id
Candidates(t) == {i \in 1..Len(fallback_chains[t]) : Available(fallback_chains[t][i])}

\* the first registered, available id of a tier's chain, in priority order
FirstCandidate(t) ==
    fallback_chains[t][CHOOSE i \in Candidates(t) : \A j \in Candidates(t) : i <= j]

IsGetModel == call.op = "get_model"
ReturnedModel(x) == call.result = Returned(x, models[x].model)
RaisedNotFound == call.result.outcome = "raise" /\ call.result.error = "ModelNotFoundError"

\* C1: get_model on a registered, available id returns exactly that id and
\* the handle stored for it, with use_fallback true and false, also right
\* after register_model, whatever other models the chains would prefer.
C1_DirectReturn ==
    (IsGetModel /\ Available(call.model_id)) => ReturnedModel(call.model_id)

\* C1 witness: a model a caller registered as PREMIUM outside the PREMIUM
\* chain is requested with fallback enabled while gpt-4, the head of that
\* chain, is available, and the caller's own handle comes back.
C1_Witness ==
    /\ IsGetModel /\ call.use_fallback
    /\ call.model_id = "command-nightly-v2.0"
    /\ Available("command-nightly-v2.0") /\ Available("gpt-4")
    /\ models["command-nightly-v2.0"].tier = PREMIUM
    /\ call.result = Returned("command-nightly-v2.0", CallerBackend)

\* C2: with X registered but unavailable, fallback enabled and a registered,
\* available id in the chain of X's tier, get_model(X) returns the first such
\* id of that chain in priority order, with its handle.
C2_SameTierFallback ==
    (/\ IsGetModel /\ call.use_fallback
     /\ Unavailable(call.model_id)
     /\ Candidates(models[call.model_id].tier) # {})
    => ReturnedModel(FirstCandidate(models[call.model_id].tier))

\* C2 witness: the PREMIUM chain holds two available candidates (gpt-4 before
\* claude-2) and the unavailable PREMIUM model gets gpt-4.
C2_Witness ==
    /\ IsGetModel /\ call.use_fallback
    /\ Unavailable(call.model_id)
    /\ models[call.model_id].tier = PREMIUM
    /\ Available("gpt-4") /\ Available("claude-2")
    /\ call.result = Returned("gpt-4", BackendOf("gpt-4"))

\* the tiers below t whose chain holds a registered, available id
LowerTiersWithCandidate(t) == {u \in Tiers : u < t /\ Candidates(u) # {}}

\* the nearest of them
NearestLowerTier(t) ==
    CHOOSE u \in LowerTiersWithCandidate(t) : \A v \in LowerTiersWithCandidate(t) : v <= u

\* C3: with X registered and unavailable and no registered, available id in
\* the chain of X's tier, get_model(X) returns the first registered, available
\* id of the chain of the nearest lower tier that has one.
C3_LowerTierFallback ==
    (/\ IsGetModel /\ call.use_fallback
     /\ Unavailable(call.model_id)
     /\ Candidates(models[call.model_id].tier) = {}
     /\ LowerTiersWithCandidate(models[call.model_id].tier) # {})
    => ReturnedModel(FirstCandidate(NearestLowerTier(models[call.model_id].tier)))

\* C3 witness: the ADVANCED chain is exhausted, both STANDARD and BASIC have a
\* candidate, and the STANDARD one is returned.
C3_Witness ==
    /\ IsGetModel /\ call.use_fallback
    /\ Unavailable(call.model_id)
    /\ models[call.model_id].tier = ADVANCED
    /\ Candidates(ADVANCED) = {}
    /\ Candidates(STANDARD) # {} /\ Candidates(BASIC) # {}
    /\ call.result = Returned("command-light-nightly", BackendOf("command-light-nightly"))

\* C4 (as claimed): for a registered, unavailable X the model get_model(X)
\* returns has a registered tier not higher than the registered tier of X.
C4_NeverHigherRegisteredTier ==
    (/\ IsGetModel /\ call.use_fallback
     /\ Unavailable(call.model_id)
     /\ call.result.outcome = "return")
    => models[call.result.model_id].tier <= models[call.model_id].tier

\* the tiers at or below t
TiersUpTo(t) == {u \in Tiers : u <= t}

\* C5: with X registered and unavailable and no registered, available id in
\* the chain of any tier at or below X's tier, get_model(X) with fallback
\* raises ModelNotFoundError, also when models of a higher tier are available.
C5_ExhaustionRaises ==
    (/\ IsGetModel /\ call.use_fallback
     /\ Unavailable(call.model_id)
     /\ \A u \in TiersUpTo(models[call.model_id].tier) : Candidates(u) = {})
    => /\ RaisedNotFound
       /\ call.result.message = "No fallback models available"

\* C5 witness: the unavailable ADVANCED model has no candidate at or below its
\* tier while gpt-4, registered PREMIUM and heading the PREMIUM chain, is
\* available; the call raises.
C5_Witness ==
    /\ IsGetModel /\ call.use_fallback
    /\ Unavailable(call.model_id)
    /\ models[call.model_id].tier = ADVANCED
    /\ \A u \in TiersUpTo(ADVANCED) : Candidates(u) = {}
    /\ Available("gpt-4") /\ models["gpt-4"].tier = PREMIUM
    /\ RaisedNotFound

\* C6: get_model with use_fallback false raises ModelNotFoundError for an id
\* that is not registered and for one that is registered but unavailable; no
\* model is returned in its place.
C6_NoFallbackRaises ==
    (IsGetModel /\ ~call.use_fallback /\ ~Available(call.model_id))
    => /\ RaisedNotFound
       /\ call.result.model_id = "" /\ call.result.model = ""

\* C6 witness: gpt-4 is unavailable, claude-2 of the same chain is available,
\* and the request for gpt-4 without fallback raises.
C6_Witness ==
    /\ IsGetModel /\ ~call.use_fallback
    /\ call.model_id = "gpt-4"
    /\ Unavailable("gpt-4") /\ Available("claude-2")
    /\ RaisedNotFound

\* C7 (as claimed): get_model with fallback on an id that is not registered
\* returns a registered, available model whenever the registry holds at
\* least one available model.
C7_UnknownIdGetsSomeModel ==
    (/\ IsGetModel /\ call.use_fallback
     /\ ~Registered(call.model_id)
     /\ list_available_models(models, 0) # {})
    => /\ call.result.outcome = "return"
       /\ Available(call.result.model_id)

\* the tiers whose chain holds a registered, available id
TiersWithCandidate == {u \in Tiers : Candidates(u) # {}}

\* the highest of them
HighestTierWithCandidate ==
    CHOOSE u \in TiersWithCandidate : \A v \in TiersWithCandidate : v <= u

\* C8: _get_best_available_model returns the first registered, available id
\* of the chain of the highest tier whose chain has one, and raises
\* ModelNotFoundError when no chain has one (in particular when every model
\* is unavailable).
C8_BestAvailable ==
    (call.op = "_get_best_available_model")
    => IF TiersWithCandidate # {}
       THEN ReturnedModel(FirstCandidate(HighestTierWithCandidate))
       ELSE RaisedNotFound /\ call.result.message = "No models available"

\* C8 witness: the PREMIUM chain is exhausted, ADVANCED holds a candidate,
\* and the ADVANCED one is the best available model.
C8_Witness ==
    /\ call.op = "_get_best_available_model"
    /\ Unavailable("gpt-4") /\ Unavailable("claude-2")
    /\ Candidates(PREMIUM) = {}
    /\ call.result = Returned("gpt-3.5-turbo", BackendOf("gpt-3.5-turbo"))

\* C8, second case reached: models are registered, all of them unavailable,
\* and the call raises.
C8_AllUnavailable ==
    /\ call.op = "_get_best_available_model"
    /\ DOMAIN models # {}
    /\ \A x \in DOMAIN models : ~models[x].is_available
    /\ RaisedNotFound

\* X has received max_errors mark_model_error calls since it was last
\* registered or reset
MarkedOut(x) == Registered(x) /\ marks[x] >= models[x].max_errors

\* C9: once mark_model_error has been called max_errors times on a
\* registered X with no reset (or new registration) in between, X is
\* unavailable and list_available_models() excludes it; a reset_model_status(X)
\* that follows leaves X available, listed and with error_count 0.
C9_ErrorsThenReset ==
    /\ [](\A x \in Ids :
            MarkedOut(x)
            => ~models[x].is_available /\ x \notin list_available_models(models, 0))
    /\ [][\A x \in Ids :
            (MarkedOut(x) /\ ResetModelStatus(x))
            => /\ models'[x].is_available
               /\ x \in list_available_models(models', 0)
               /\ models'[x].error_count = 0]_vars

\* C9 witness: gpt-4 has just received its third error since construction
\* and is neither available nor listed.
C9_Witness ==
    /\ call.op = "mark_model_error" /\ call.model_id = "gpt-4"
    /\ marks["gpt-4"] = DefaultMaxErrors
    /\ ~models["gpt-4"].is_available
    /\ "gpt-4" \notin list_available_models(models, 0)

\* C10: every record has is_available true while error_count < max_errors
\* and false once error_count >= max_errors.
C10_AvailabilityInvariant ==
    \A x \in DOMAIN models :
        /\ models[x].error_count < models[x].max_errors => models[x].is_available
        /\ models[x].error_count >= models[x].max_errors => ~models[x].is_available

\* C10 witness: one record is below max_errors with errors counted and
\* available, another is above max_errors and unavailable.
C10_Witness ==
    \E x, y \in DOMAIN models :
        /\ models[x].error_count > 0 /\ models[x].error_count < models[x].max_errors
        /\ models[x].is_available
        /\ models[y].error_count > models[y].max_errors
        /\ ~models[y].is_available

\* C11: a record's is_available goes from true to false only in a
\* mark_model_error call on that id, and only in the call that takes its
\* error_count from below max_errors to max_errors or above; register_model,
\* reset_model_status, get_model, get_model_tier and list_available_models
\* never do it.
C11_OnlyMarkMakesUnavailable ==
    [][\A x \in DOMAIN models :
          (models[x].is_available /\ ~(x \in DOMAIN models' /\ models'[x].is_available))
          => /\ call'.op = "mark_model_error" /\ call'.model_id = x
             /\ x \in DOMAIN models'
             /\ models[x].error_count < models[x].max_errors
             /\ models'[x].error_count = models[x].error_count + 1
             /\ models'[x].error_count >= models'[x].max_errors]_vars

\* C11 witness: the model a caller registered has just been made unavailable
\* by the mark_model_error call that brought its error_count to max_errors.
C11_Witness ==
    /\ call.op = "mark_model_error" /\ call.model_id = "command-nightly-v2.0"
    /\ Registered("command-nightly-v2.0")
    /\ models["command-nightly-v2.0"].model = CallerBackend
    /\ models["command-nightly-v2.0"].error_count = models["command-nightly-v2.0"].max_errors
    /\ ~models["command-nightly-v2.0"].is_available

\* C12 (as claimed): a record's is_available goes from false to true only in
\* a reset_model_status call on that id.
C12_OnlyResetRestores ==
    [][\A x \in DOMAIN models :
          (~models[x].is_available /\ x \in DOMAIN models' /\ models'[x].is_available)
          => call'.op = "reset_model_status" /\ call'.model_id = x]_vars

\* C12 (amended): a record's is_available goes from false to true only in a
\* reset_model_status call on that id or in a register_model call that
\* registers that id again; across every other call an unavailable model
\* stays registered and unavailable.
C12_OnlyResetOrRegisterRestores ==
    [][\A x \in DOMAIN models :
          ~models[x].is_available
          => \/ call'.op \in {"reset_model_status", "register_model"} /\ call'.model_id = x
             \/ x \in DOMAIN models' /\ ~models'[x].is_available]_vars

\* C12 witness: a model that was already unavailable has received one more
\* error and is still unavailable.
C12_Witness ==
    \E x \in DOMAIN models :
        /\ call.op = "mark_model_error" /\ call.model_id = x
        /\ models[x].error_count > models[x].max_errors
        /\ ~models[x].is_available

\* C13: mark_model_error and reset_model_status on an id that is not
\* registered return without raising, create no record for the id and leave
\* every record as it was.
C13_UnknownIdNoOp ==
    [][\A x \in Ids :
          (/\ x \notin DOMAIN models
           /\ call'.op \in {"mark_model_error", "reset_model_status"}
           /\ call'.model_id = x)
          => /\ models' = models
             /\ x \notin DOMAIN models'
             /\ call'.result = ReturnedNone]_vars

\* C13 witness: mark_model_error was called with an id nobody registered on
\* a manager that holds records.
C13_Witness ==
    /\ call.op = "mark_model_error" /\ call.model_id = "nonexistent-model"
    /\ ~Registered("nonexistent-model")
    /\ DOMAIN models # {}
    /\ call.result = ReturnedNone

\* the tier each provider family registers its models with
ConstructionTier(x) ==
    CASE x \in {"gpt-4", "claude-2", "gemini-ultra"} -> PREMIUM
      [] x \in {"gpt-3.5-turbo", "claude-instant-1", "command-nightly",
                "gemini-pro-vision"} -> ADVANCED
      [] x \in {"command-light-nightly", "gemini-pro"} -> STANDARD
      [] x \in {"command-nightly-v2.0"} -> BASIC

\* the tier supplied at the latest registration of a registered id: the
\* record holds a caller's backend exactly when a caller registered it last
SuppliedTier(x) ==
    IF models[x].model = CallerBackend
    THEN (CHOOSE r \in RegisterInputs : r[1] = x /\ r[2] = CallerBackend)[3]
    ELSE ConstructionTier(x)

\* C14: get_model_tier returns, for a registered id, the tier supplied at
\* its latest registration, whatever errors and resets the record has seen,
\* and None (0) for an id that is not registered.
C14_TierLookup ==
    (call.op = "get_model_tier")
    => IF Registered(call.model_id)
       THEN call.result = ReturnedTier(SuppliedTier(call.model_id))
       ELSE call.result = ReturnedTier(0)

\* C14 witness: the Cohere family registered command-nightly-v2.0 as BASIC, a
\* caller registered it again as PREMIUM, errors were counted on it, and the
\* lookup answers PREMIUM.
C14_Witness ==
    /\ call.op = "get_model_tier" /\ call.model_id = "command-nightly-v2.0"
    /\ Registered("command-nightly") /\ Registered("command-nightly-v2.0")
    /\ models["command-nightly-v2.0"].model = CallerBackend
    /\ models["command-nightly-v2.0"].error_count > 0
    /\ call.result = ReturnedTier(PREMIUM)

\* C15: list_available_models() lists exactly the registered ids whose
\* is_available is true, and list_available_models(tier) exactly those of
\* them registered with that very tier.
C15_ListAvailable ==
    (call.op = "list_available_models")
    => /\ call.result.outcome = "return"
       /\ call.result.ids \subseteq DOMAIN models
       /\ \A x \in DOMAIN models :
             x \in call.result.ids
             <=> /\ models[x].is_available
                 /\ call.tier # 0 => models[x].tier = call.tier

\* C15 witness: asked for ADVANCED with gpt-4 (PREMIUM) available and
\* claude-2 unavailable, the list is gpt-3.5-turbo alone.
C15_Witness ==
    /\ call.op = "list_available_models" /\ call.tier = ADVANCED
    /\ Available("gpt-4") /\ Unavailable("claude-2") /\ Available("gpt-3.5-turbo")
    /\ call.result.ids = {"gpt-3.5-turbo"}

\* the registry of the scenario: gpt-4 and claude-2 at PREMIUM and
\* gpt-3.5-turbo at ADVANCED, nothing else
ScenarioRegistry ==
    /\ DOMAIN models = {"gpt-4", "claude-2", "gpt-3.5-turbo"}
    /\ models["gpt-4"].tier = PREMIUM
    /\ models["claude-2"].tier = PREMIUM
    /\ models["gpt-3.5-turbo"].tier = ADVANCED

\* C16: in the scenario registry, after three mark_model_error calls on
\* gpt-4, get_model("gpt-4") returns claude-2 with its handle as long as
\* claude-2 has fewer than three errors; once claude-2 has three errors too
\* (and gpt-3.5-turbo has fewer), it returns gpt-3.5-turbo with its handle.
C16_Scenario ==
    ( /\ ScenarioRegistry
      /\ IsGetModel /\ call.model_id = "gpt-4" /\ call.use_fallback
      /\ marks["gpt-4"] = DefaultMaxErrors )
    => /\ marks["claude-2"] < DefaultMaxErrors
          => call.result = Returned("claude-2", models["claude-2"].model)
       /\ ( /\ marks["claude-2"] = DefaultMaxErrors
            /\ marks["gpt-3.5-turbo"] < DefaultMaxErrors )
          => call.result = Returned("gpt-3.5-turbo", models["gpt-3.5-turbo"].model)

\* C16 witness: the second stage of the scenario, gpt-4 and claude-2 with
\* three errors each and get_model("gpt-4") answering gpt-3.5-turbo.
C16_Witness ==
    /\ ScenarioRegistry
    /\ IsGetModel /\ call.model_id = "gpt-4" /\ call.use_fallback
    /\ marks["gpt-4"] = DefaultMaxErrors /\ marks["claude-2"] = DefaultMaxErrors
    /\ marks["gpt-3.5-turbo"] = 0
    /\ call.result = Returned("gpt-3.5-turbo", BackendOf("gpt-3.5-turbo"))

\* the first stage of the scenario: gpt-4 with three errors, claude-2 with
\* none, and get_model("gpt-4") answering claude-2
C16_FirstStage ==
    /\ ScenarioRegistry
    /\ IsGetModel /\ call.model_id = "gpt-4" /\ call.use_fallback
    /\ marks["gpt-4"] = DefaultMaxErrors /\ marks["claude-2"] = 0
    /\ call.result = Returned("claude-2", BackendOf("claude-2"))

\* C17: every register_model(id, handle, tier) call returns normally and
\* leaves id with the record (handle, tier, is_available = true,
\* error_count = 0) whatever its record was before, leaves every other
\* record as it was, and a call that directly follows a call with the same
\* arguments leaves the registry unchanged.
C17_RegisterOverwrites ==
    [][ (call'.op = "register_model")
        => \E r \in RegisterInputs :
              /\ r[1] = call'.model_id
              /\ call'.result = ReturnedNone
              /\ DOMAIN models' = (DOMAIN models) \cup {r[1]}
              /\ models'[r[1]] = [model |-> r[2], tier |-> r[3], is_available |-> TRUE,
                                  error_count |-> 0, max_errors |-> DefaultMaxErrors]
              /\ \A x \in (DOMAIN models) \ {r[1]} : models'[x] = models[x]
              /\ (call.op = "register_model" /\ call.model_id = r[1])
                 => models' = models ]_vars

\* C17 witness: in the registry built with the Cohere family, where
\* command-nightly-v2.0 was registered at BASIC with its Cohere backend, a
\* register_model call has replaced that record.
C17_Witness ==
    /\ call.op = "register_model" /\ call.model_id = "command-nightly-v2.0"
    /\ Registered("command-nightly") /\ Registered("command-light-nightly")
    /\ models["command-nightly-v2.0"] = ModelInfo(CallerBackend, PREMIUM)

\* the ids a family registers, and the credential it needs ("" for none)
FamilyIds(family) ==
    CASE family = "openai" -> {"gpt-4", "gpt-3.5-turbo"}
      [] family = "anthropic" -> {"claude-2", "claude-instant-1"}
      [] family = "cohere" -> {"command-nightly", "command-light-nightly",
                               "command-nightly-v2.0"}
      [] family = "google" -> {"gemini-pro", "gemini-pro-vision", "gemini-ultra"}

FamilyKey(family) ==
    CASE family = "openai" -> ""
      [] family = "anthropic" -> "ANTHROPIC_API_KEY"
      [] family = "cohere" -> "COHERE_API_KEY"
      [] family = "google" -> "GOOGLE_API_KEY"

Families == {"openai", "anthropic", "cohere", "google"}

\* a family fails when its credential is missing or one of its backend
\* calls raises
FamilyFails(family, env) ==
    \/ FamilyKey(family) # "" /\ FamilyKey(family) \notin env.keys
    \/ FamilyIds(family) \cap env.failing # {}
    \/ family = "google" /\ "genai.configure" \in env.failing

IsConstructed == call.op = "ModelManager"

\* the routine that runs after each one
NextRoutine(op) ==
    CASE op = "__init__" -> "_init_openai_models"
      [] op = "_init_openai_models" -> "_init_anthropic_models"
      [] op = "_init_anthropic_models" -> "_init_cohere_models"
      [] op = "_init_cohere_models" -> "_init_google_models"
      [] op = "_init_google_models" -> "ModelManager"
      [] OTHER -> ""

\* the construction of the state machine of the calls starts from the
\* registry the step-by-step construction ends with
ConstructionAgrees ==
    IsConstructed => models = initialize_default_models(call.env)

\* C18: the family routines run in the order OpenAI, Anthropic, Cohere,
\* Google, each exactly once; the constructor returns normally in every
\* environment; and every model of every family that did not fail is
\* registered, with its backend and tier, when it returns.
C18_FailuresContained ==
    /\ [](IsConstructed
          => /\ call.result = ReturnedNone
             /\ \A family \in Families :
                   ~FamilyFails(family, call.env)
                   => \A x \in FamilyIds(family) :
                         /\ x \in DOMAIN models
                         /\ models[x] = ModelInfo(BackendOf(x), ConstructionTier(x)))
    /\ [][call'.op = NextRoutine(call.op)]_vars

\* C18 witness: the Anthropic backend raised, the Cohere credential is
\* missing, and the constructor has returned with the OpenAI and Google
\* models registered.
C18_Witness ==
    /\ IsConstructed /\ call.result = ReturnedNone
    /\ "anthropic" \in call.caught
    /\ "claude-2" \in call.env.failing
    /\ "COHERE_API_KEY" \notin call.env.keys
    /\ ~FamilyFails("openai", call.env) /\ ~FamilyFails("google", call.env)
    /\ DOMAIN models = FamilyIds("openai") \cup FamilyIds("google")

\* C19: constructing the manager without GOOGLE_API_KEY raises
\* ModelConfigError "Error initializing default models: GOOGLE_API_KEY not
\* found in environment".
C19_MissingGoogleKeyRaises ==
    (IsConstructed /\ "GOOGLE_API_KEY" \notin call.env.keys)
    => call.result = Raised("ModelConfigError",
                            "Error initializing default models: "
                                \o "GOOGLE_API_KEY not found in environment")

\* C20: when the constructor has returned, no id of a family whose routine
\* caught an error is registered (a gemini-ultra failure is caught by its
\* own guard and is not an error of the Google routine).
C20_FailedFamilyContributesNothing ==
    IsConstructed
    => \A family \in call.caught : FamilyIds(family) \cap DOMAIN models = {}

\* C21: in the agent's request flow every failed invocation of a resolved
\* model has been reported by a mark_model_error call once the except
\* clause has run, so a model with max_errors failed invocations is
\* unavailable.
C21_AgentReportsErrors ==
    (call.op # "_get_model_response")
    => \A x \in DOMAIN models :
          /\ marks[x] = call.failed[x]
          /\ call.failed[x] >= models[x].max_errors => ~models[x].is_available

\* the flow of C21 run to its end: three requests for gpt-4 have failed at
\* the invocation and gpt-4 is still available
C21_ThreeFailuresStillAvailable ==
    /\ call.op = "process_message"
    /\ "gpt-4" \in DOMAIN models
    /\ call.failed["gpt-4"] = DefaultMaxErrors
    /\ models["gpt-4"].is_available /\ models["gpt-4"].error_count = 0

\* C22: when all the concurrent mark_model_error calls on a registered id
\* have returned, error_count is the number of calls and the model is
\* unavailable if that count has reached max_errors.
C22_NoLostUpdate ==
    ( /\ call.model_id \in DOMAIN models
      /\ \A t \in Callers : call.pc[t] = "return" )
    => /\ models[call.model_id].error_count = marks[call.model_id]
       /\ marks[call.model_id] >= models[call.model_id].max_errors
          => ~models[call.model_id].is_available

\* the lost update of C22 at its worst: every call has returned and
\* error_count is 1
C22_AllButOneLost ==
    /\ call.model_id = "gpt-3.5-turbo"
    /\ \A t \in Callers : call.pc[t] = "return"
    /\ marks[call.model_id] = NumCallers
    /\ models[call.model_id].error_count = 1
    /\ models[call.model_id].is_available

\* C23: no call removes a record: across every step (register_model,
\* get_model, mark_model_error, reset_model_status, get_model_tier,
\* list_available_models) every registered id stays registered.
C23_RecordsNeverDeleted ==
    [][(DOMAIN models) \subseteq (DOMAIN models')]_vars

\* C23 witness: the registry has grown by a caller's registration and
\* still holds gpt-4 with more errors than max_errors.
C23_Witness ==
    /\ Registered("gpt-4") /\ models["gpt-4"].error_count = MaxErrorCount
    /\ Unavailable("gpt-4")
    /\ Registered("command-nightly-v2.0")
    /\ models["command-nightly-v2.0"].model = CallerBackend

\* the walk of the last get_model was entered from this tier
WalkStart == models[call.model_id].tier

InWalk == call.op = WhileLoop

WalkExhausted ==
    /\ call.op = "get_model"
    /\ call.result = Raised("ModelNotFoundError", "No fallback models available")

\* the step-by-step walk answers as get_model does
WalkAgrees ==
    (call.op = "get_model") => call.result = get_model(models, call.model_id, TRUE)

\* C24: the walk visits the tiers below its starting tier one by one in
\* descending order (the i-th tier visited is i below the start), never
\* leaves the set of tiers, has visited every lower tier exactly once when it
\* ends without a model, and always ends.
C24_WalkTerminates ==
    /\ [](/\ call.current_tier \in Tiers
          /\ \A i \in 1..Len(call.visited) :
                call.visited[i] \in Tiers /\ call.visited[i] = WalkStart - i
          /\ InWalk => call.current_tier = WalkStart - Len(call.visited)
          /\ WalkExhausted
             => /\ Len(call.visited) = WalkStart - BASIC
                /\ call.current_tier = BASIC)
    /\ (InWalk ~> (call.op = "get_model"))

\* C24 witness: a walk from PREMIUM that found nothing has visited
\* ADVANCED, STANDARD and BASIC in this order.
C24_Witness ==
    /\ WalkExhausted
    /\ WalkStart = PREMIUM
    /\ call.visited = <<ADVANCED, STANDARD, BASIC>>

\* the last call was resolved by a scan of the chains
FallbackTaken ==
    \/ IsGetModel /\ call.use_fallback /\ ~Available(call.model_id)
    \/ call.op = "_get_best_available_model"

\* the tiers whose chains the scan of the last call may read
ScannedTiers ==
    IF IsGetModel /\ Registered(call.model_id)
    THEN TiersUpTo(models[call.model_id].tier) ELSE Tiers

ScannedTiersWithCandidate == {t \in ScannedTiers : Candidates(t) # {}}

\* C25: a scan of the chains never returns an id that is not registered,
\* raises nothing but ModelNotFoundError, and returns the first registered,
\* available id of the highest scanned tier that has one, whatever
\* unregistered ids precede it in its chain or fill the chains above it.
C25_UnregisteredEntriesSkipped ==
    FallbackTaken
    => /\ call.result.outcome = "return" => Registered(call.result.model_id)
       /\ call.result.outcome = "raise" => call.result.error = "ModelNotFoundError"
       /\ ScannedTiersWithCandidate # {}
          => LET t == CHOOSE u \in ScannedTiersWithCandidate :
                         \A v \in ScannedTiersWithCandidate : v <= u
             IN  ReturnedModel(FirstCandidate(t))

\* C25 witness: gemini-ultra is unavailable, no id of the ADVANCED chain
\* is registered, the first entry of the STANDARD chain
\* (command-light-nightly) was never registered, and get_model answers
\* with the entry after it.
C25_Witness ==
    /\ IsGetModel /\ call.use_fallback /\ call.model_id = "gemini-ultra"
    /\ Unavailable("gemini-ultra")
    /\ \A i \in 1..Len(fallback_chains[ADVANCED]) :
          ~Registered(fallback_chains[ADVANCED][i])
    /\ ~Registered("command-light-nightly")
    /\ Available("gemini-pro")
    /\ ReturnedModel("gemini-pro")

\* the same for the chains above the answer: no PREMIUM id but gemini-ultra
\* is registered and the best available model is gemini-ultra
C25_BestSkipsUnregistered ==
    /\ call.op = "_get_best_available_model"
    /\ ~Registered("gpt-4") /\ ~Registered("claude-2")
    /\ Available("gemini-ultra")
    /\ ReturnedModel("gemini-ultra")

\* C26: every (r, h) returned by get_model, with or without fallback, or by
\* _get_best_available_model names a registered, available r with h the
\* handle of r's record, and get_model returns an id other than the
\* requested one only when the requested id is unregistered or unavailable.
C26_ReturnedAvailable ==
    ( /\ call.op \in {"get_model", "_get_best_available_model"}
      /\ call.result.outcome = "return" )
    => /\ Registered(call.result.model_id)
       /\ models[call.result.model_id].is_available
       /\ call.result.model = models[call.result.model_id].model
       /\ (IsGetModel /\ call.result.model_id # call.model_id)
          => ~Available(call.model_id)

\* C26 witness: get_model has returned an id other than the requested,
\* unavailable one, while another unavailable model is registered.
C26_Witness ==
    /\ IsGetModel /\ call.result.outcome = "return"
    /\ Unavailable(call.model_id)
    /\ call.result.model_id # call.model_id
    /\ \E x \in DOMAIN models : x # call.model_id /\ ~models[x].is_available

ReadOnlyCalls ==
    {"get_model", "_get_best_available_model", "get_model_tier", "list_available_models"}

\* C27: a step of get_model, _get_best_available_model, get_model_tier or
\* list_available_models, returning or raising, leaves the registry (ids,
\* handles, tiers, is_available, error_count) exactly as it was.
C27_ReadOnly ==
    [][(call'.op \in ReadOnlyCalls) => models' = models]_vars

\* C27 witness: get_model has answered an unavailable model's request with
\* another model and the requested model's error count is still what
\* mark_model_error left.
C27_Witness ==
    /\ IsGetModel /\ call.result.outcome = "return"
    /\ Unavailable(call.model_id)
    /\ call.result.model_id # call.model_id
    /\ models[call.model_id].error_count = DefaultMaxErrors
    /\ marks[call.model_id] = DefaultMaxErrors
    /\ models[call.result.model_id].error_count = 1

\* C28: a mark_model_error(X) or reset_model_status(X) step keeps the set
\* of registered ids, every record other than X's, and the handle, tier and
\* max_errors of X's record.
C28_OnlyStatusOfX ==
    [][(call'.op \in {"mark_model_error", "reset_model_status"})
       => /\ DOMAIN models' = DOMAIN models
          /\ \A x \in DOMAIN models :
                /\ x # call'.model_id => models'[x] = models[x]
                /\ models'[x].model = models[x].model
                /\ models'[x].tier = models[x].tier
                /\ models'[x].max_errors = models[x].max_errors]_vars

\* C28 witness: reset_model_status has cleared X while two errors of
\* another model of X's tier are still counted.
C28_Witness ==
    /\ call.op = "reset_model_status" /\ Registered(call.model_id)
    /\ models[call.model_id].error_count = 0
    /\ \E y \in DOMAIN models :
          /\ y # call.model_id
          /\ models[y].tier = models[call.model_id].tier
          /\ models[y].error_count = 2

\* C29: every mark_model_error step on a registered id adds exactly 1 to
\* its error_count, available or not; an error_count goes down only to 0
\* and only by reset_model_status or register_model on that id; get_model
\* and _get_best_available_model steps keep every error_count.
C29_CumulativeErrors ==
    [][\A x \in DOMAIN models :
          /\ (call'.op = "mark_model_error" /\ call'.model_id = x)
             => models'[x].error_count = models[x].error_count + 1
          /\ models'[x].error_count < models[x].error_count
             => /\ models'[x].error_count = 0
                /\ call'.op \in {"reset_model_status", "register_model"}
                /\ call'.model_id = x
          /\ call'.op \in {"get_model", "_get_best_available_model"}
             => models'[x].error_count = models[x].error_count]_vars

\* C29 witness: mark_model_error has just counted an error of a model that
\* was unavailable already, taking error_count above max_errors.
C29_Witness ==
    /\ call.op = "mark_model_error" /\ Registered(call.model_id)
    /\ models[call.model_id].error_count > models[call.model_id].max_errors
    /\ ~models[call.model_id].is_available

\* C30: an id that get_model or _get_best_available_model returns and that
\* no fallback chain lists is the id that was requested, registered and
\* available: fallbacks return chain entries only.
C30_FallbackOnlyFromChains ==
    ( /\ call.op \in {"get_model", "_get_best_available_model"}
      /\ call.result.outcome = "return"
      /\ call.result.model_id \notin ChainIds )
    => /\ IsGetModel
       /\ call.result.model_id = call.model_id
       /\ Available(call.model_id)

\* C30 witness: a request resolved by the chains has raised
\* ModelNotFoundError while gemini-pro-vision, which no chain lists, is
\* registered and available.
C30_Witness ==
    /\ FallbackTaken /\ RaisedNotFound
    /\ "gemini-pro-vision" \notin ChainIds
    /\ Available("gemini-pro-vision")

\* gemini-pro-vision itself is returned when it is requested
C30_DirectRequest ==
    /\ IsGetModel /\ call.model_id = "gemini-pro-vision"
    /\ Available("gemini-pro-vision")
    /\ ReturnedModel("gemini-pro-vision")
    /\ \A x \in DOMAIN models : x \in ChainIds => ~models[x].is_available

====
